---- MODULE Spec2Model ----
(***************************************************************************)
(* Model of pyccl/power.py: the nine power-spectrum query functions that   *)
(* marshal their arguments, call the numerical engine (lib.*_vec), check   *)
(* the returned status and reshape the result.                             *)
(*                                                                         *)
(* Numbers are integers.  A numpy value is a record [shape, data]: a       *)
(* scalar is shape "scalar" with one datum, a one-dimensional array is     *)
(* shape "array", an (na, nk) grid is shape "grid" with row-major data.    *)
(* The outcome of a call is a record [raised, err, shape, data].           *)
(* The Cosmology object, the engine routines, check() and the Pk2D         *)
(* evaluator are not part of power.py; they are modelled from their        *)
(* documented contract.                                                    *)
(***************************************************************************)
EXTENDS Integers, Sequences, FiniteSets, TLC

VARIABLES cosmo,    \* the Cosmology object the operations are called on
          pre,      \* the Cosmology object as it was when the last call began
          op,       \* name of the last operation called
          args,     \* arguments of the last call
          ret,      \* outcome of the last call: a value or a raised error
          calls,    \* collaborator calls made by the last call, in order
          written,  \* values passed to cosmo._fill_params(sigma8=...) so far
          ncalls    \* number of calls made so far

vars == <<cosmo, pre, op, args, ret, calls, written, ncalls>>

\* ---------------------------------------------------------------- bounds
MaxLen == 2      \* longest array argument
MaxCalls == 2    \* longest sequence of calls on one context

\* ------------------------------------------------------- values and shapes
NaN == -99                                   \* float('nan')
isnan(x) == x = NaN                          \* np.isnan

DEFAULT_POWER_SPECTRUM == "delta_matter:delta_matter"
Ids == {DEFAULT_POWER_SPECTRUM, "alt", "nl_only"}

Scalar(x) == [shape |-> "scalar", data |-> <<x>>]
Array(s) == [shape |-> "array", data |-> s]
ndim(x) == IF x.shape = "scalar" THEN 0 ELSE 1          \* np.ndim
atleast_1d(x) == Array(x.data)                          \* np.atleast_1d

\* log10 on the sampled masses; non-positive input gives a non-finite value
log10(x) ==
    IF x = 1 THEN 0
    ELSE IF x = 10 THEN 1
    ELSE IF x = 100 THEN 2
    ELSE NaN
np_log10(x) == [shape |-> x.shape, data |-> [i \in 1..Len(x.data) |-> log10(x.data[i])]]

\* ----------------------------------------------------------- outcomes
Value(v) == [raised |-> FALSE, err |-> "", shape |-> v.shape, data |-> v.data]
Raise(e) == [raised |-> TRUE, err |-> e, shape |-> "none", data |-> <<>>]
\* A collaborator call: routine, spectrum name, array argument, length passed,
\* status returned and output returned (engine routines only).
Call(fn, id, arg, n, st, out) ==
    [fn |-> fn, id |-> id, arg |-> arg, n |-> n, st |-> st, out |-> out]
Note(fn, id, arg) == Call(fn, id, arg, 0, 0, <<>>)
Res(c, r, cs, w) == [cosmo |-> c, ret |-> r, calls |-> cs, fills |-> w]

\* ------------------------------------------- the Cosmology object (context)
\* cosmo["h"], cosmo["sigma8"]
GetParam(c, name) == IF name = "h" THEN c.h ELSE c.sigma8
\* cosmo._fill_params(sigma8=v)
fill_params(c, v) == [c EXCEPT !.sigma8 = v]
\* cosmo.compute_sigma(): builds the variance table unless it is built
compute_sigma(c) == [c EXCEPT !.sigma_built = TRUE]
\* cosmo.parse_pk2d(name, is_linear=True): the linear spectrum of that name
parse_pk2d_ok(c, name) == name \in DOMAIN c.pk_lin
parse_pk2d(c, name) == c.pk_lin[name]

\* check(status, cosmo): raises CCLError unless status is zero
check(status) == status # 0

\* ------------------------------------------------------ the engine (lib)
BadA(a) == a <= 0            \* scale factor the engine cannot evaluate
BadPsp(psp) == psp = 0       \* spectrum the engine cannot integrate
sigMVal(a, lm) == a * 100 + lm
sigmaRVal(psp, a, R) == IF isnan(psp) THEN NaN ELSE psp * 1000 + a * 100 + R
sigmaVVal(psp, a, R) == IF isnan(psp) THEN NaN ELSE psp * 1000 + a * 100 + R + 50
kNLVal(psp, a) == IF isnan(psp) THEN NaN ELSE psp * 1000 + a * 100 + 99
PkVal(pk, k, a) == IF isnan(pk) THEN NaN ELSE pk * 1000 + a * 100 + k

\* Index of the first TRUE among bad[1..n], n + 1 when there is none.
RECURSIVE FirstBad(_, _, _)
FirstBad(bad, n, i) ==
    IF i > n THEN n + 1
    ELSE IF bad[i] THEN i
    ELSE FirstBad(bad, n, i + 1)

\* An engine routine fills out[1..n] in order and stops at the first element
\* it cannot evaluate, leaving the rest of the output at zero.  val[i] is the
\* value of element i and bad[i] tells that element i cannot be evaluated;
\* fail tells that the routine cannot evaluate anything.
EngineVec(val, bad, n, fail, status) ==
    LET b == IF fail THEN 1 ELSE FirstBad(bad, n, 1)
    IN [out |-> [i \in 1..n |-> IF i < b THEN val[i] ELSE 0],
        status |-> IF status # 0 THEN status ELSE IF b <= n THEN 1 ELSE 0]

sigM_vec(c, a, logM, nM, status) ==
    EngineVec([i \in 1..nM |-> sigMVal(a, logM[i])],
              [i \in 1..nM |-> isnan(logM[i])],
              nM, ~c.sigma_built \/ BadA(a), status)

NegR(R) == R < 0
sigmaR_vec(c, psp, a, R, nR, status) ==
    EngineVec([i \in 1..nR |-> sigmaRVal(psp, a, R[i])],
              [i \in 1..nR |-> NegR(R[i])],
              nR, BadA(a) \/ BadPsp(psp), status)

sigmaV_vec(c, psp, a, R, nR, status) ==
    EngineVec([i \in 1..nR |-> sigmaVVal(psp, a, R[i])],
              [i \in 1..nR |-> NegR(R[i])],
              nR, BadA(a) \/ BadPsp(psp), status)

kNL_vec(c, psp, a, na, status) ==
    EngineVec([i \in 1..na |-> kNLVal(psp, a[i])],
              [i \in 1..na |-> BadA(a[i])],
              na, BadPsp(psp), status)

\* Pk2D.__call__(k, a, cosmo): scalar for scalar k and a, an array along the
\* array argument when one is an array, an (na, nk) grid when both are.
PkCall(pk, k, a) ==
    LET nk == Len(k.data)
        na == Len(a.data)
    IN IF \E i \in 1..na : BadA(a.data[i]) THEN Raise("CCLError")
       ELSE IF ndim(k) = 0 /\ ndim(a) = 0
            THEN Value(Scalar(PkVal(pk, k.data[1], a.data[1])))
       ELSE IF ndim(a) = 0
            THEN Value(Array([j \in 1..nk |-> PkVal(pk, k.data[j], a.data[1])]))
       ELSE IF ndim(k) = 0
            THEN Value(Array([i \in 1..na |-> PkVal(pk, k.data[1], a.data[i])]))
       ELSE Value([shape |-> "grid",
                   data |-> [m \in 1..(na * nk) |->
                              PkVal(pk, k.data[((m - 1) % nk) + 1],
                                        a.data[((m - 1) \div nk) + 1])]])

\* ------------------------------------------------------------- power.py
linear_power(c, k, a, p_of_k_a) ==
    IF p_of_k_a \notin DOMAIN c.pk_lin
    THEN Res(c, Raise("KeyError"),
             <<Note("get_linear_power", p_of_k_a, <<>>)>>, <<>>)
    ELSE Res(c, PkCall(c.pk_lin[p_of_k_a], k, a),
             <<Note("get_linear_power", p_of_k_a, <<>>),
               Note("pk_call", p_of_k_a, k.data)>>, <<>>)

nonlin_power(c, k, a, p_of_k_a) ==
    IF p_of_k_a \notin DOMAIN c.pk_nl
    THEN Res(c, Raise("KeyError"),
             <<Note("get_nonlin_power", p_of_k_a, <<>>)>>, <<>>)
    ELSE Res(c, PkCall(c.pk_nl[p_of_k_a], k, a),
             <<Note("get_nonlin_power", p_of_k_a, <<>>),
               Note("pk_call", p_of_k_a, k.data)>>, <<>>)

\* cosmo.linear_power / cosmo.nonlin_power: the functions above as methods
cosmo_linear_power(c, k, a, p_of_k_a) == linear_power(c, k, a, p_of_k_a)
cosmo_nonlin_power(c, k, a, p_of_k_a) == nonlin_power(c, k, a, p_of_k_a)

\* Variant: the wrapper delegates to the non-linear accessor.
linear_matter_power_nl(c, k, a) == cosmo_nonlin_power(c, k, a, DEFAULT_POWER_SPECTRUM)

linear_matter_power(c, k, a) == cosmo_linear_power(c, k, a, DEFAULT_POWER_SPECTRUM)

nonlin_matter_power(c, k, a) == cosmo_nonlin_power(c, k, a, DEFAULT_POWER_SPECTRUM)

\* Variant: the status of sigM_vec is not checked.
sigmaM_nocheck(c, M, a) ==
    LET c1 == compute_sigma(c)
        logM == np_log10(atleast_1d(M))
        r == sigM_vec(c1, a, logM.data, Len(logM.data), 0)
        cs == <<Note("compute_sigma", "", <<>>),
                Note("log10", "", M.data),
                Call("sigM_vec", "", logM.data, Len(logM.data), r.status, r.out)>>
    IN IF ndim(M) = 0 THEN Res(c1, Value(Scalar(r.out[1])), cs, <<>>)
       ELSE Res(c1, Value(Array(r.out)), cs, <<>>)

\* Variant: compute_sigma() is called after the engine routine.
sigmaM_late(c, M, a) ==
    LET logM == np_log10(atleast_1d(M))
        r == sigM_vec(c, a, logM.data, Len(logM.data), 0)
        c1 == compute_sigma(c)
        cs == <<Note("log10", "", M.data),
                Call("sigM_vec", "", logM.data, Len(logM.data), r.status, r.out),
                Note("compute_sigma", "", <<>>),
                Note("check", "", <<r.status>>)>>
    IN IF check(r.status) THEN Res(c1, Raise("CCLError"), cs, <<>>)
       ELSE IF ndim(M) = 0 THEN Res(c1, Value(Scalar(r.out[1])), cs, <<>>)
       ELSE Res(c1, Value(Array(r.out)), cs, <<>>)

sigmaM(c, M, a) ==
    LET c1 == compute_sigma(c)
        logM == np_log10(atleast_1d(M))
        r == sigM_vec(c1, a, logM.data, Len(logM.data), 0)
        cs == <<Note("compute_sigma", "", <<>>),
                Note("log10", "", M.data),
                Call("sigM_vec", "", logM.data, Len(logM.data), r.status, r.out),
                Note("check", "", <<r.status>>)>>
    IN IF check(r.status) THEN Res(c1, Raise("CCLError"), cs, <<>>)
       ELSE IF ndim(M) = 0 THEN Res(c1, Value(Scalar(r.out[1])), cs, <<>>)
       ELSE Res(c1, Value(Array(r.out)), cs, <<>>)

\* Variant: sigmaR itself caches a scalar result in the context's sigma8.
sigmaR_caches(c, R, a, p_of_k_a) ==
    IF ~parse_pk2d_ok(c, p_of_k_a)
    THEN Res(c, Raise("KeyError"), <<Note("parse_pk2d", p_of_k_a, <<>>)>>, <<>>)
    ELSE
    LET psp == parse_pk2d(c, p_of_k_a)
        R_use == atleast_1d(R)
        r == sigmaR_vec(c, psp, a, R_use.data, Len(R_use.data), 0)
        cs == <<Note("parse_pk2d", p_of_k_a, <<>>),
                Call("sigmaR_vec", p_of_k_a, <<a>> \o R_use.data, Len(R_use.data),
                     r.status, r.out),
                Note("check", "", <<r.status>>)>>
    IN IF check(r.status) THEN Res(c, Raise("CCLError"), cs, <<>>)
       ELSE IF ndim(R) = 0
            THEN Res(fill_params(c, r.out[1]), Value(Scalar(r.out[1])), cs, <<r.out[1]>>)
       ELSE Res(c, Value(Array(r.out)), cs, <<>>)

sigmaR(c, R, a, p_of_k_a) ==
    IF ~parse_pk2d_ok(c, p_of_k_a)
    THEN Res(c, Raise("KeyError"), <<Note("parse_pk2d", p_of_k_a, <<>>)>>, <<>>)
    ELSE
    LET psp == parse_pk2d(c, p_of_k_a)
        R_use == atleast_1d(R)
        r == sigmaR_vec(c, psp, a, R_use.data, Len(R_use.data), 0)
        cs == <<Note("parse_pk2d", p_of_k_a, <<>>),
                Call("sigmaR_vec", p_of_k_a, <<a>> \o R_use.data, Len(R_use.data),
                     r.status, r.out),
                Note("check", "", <<r.status>>)>>
    IN IF check(r.status) THEN Res(c, Raise("CCLError"), cs, <<>>)
       ELSE IF ndim(R) = 0 THEN Res(c, Value(Scalar(r.out[1])), cs, <<>>)
       ELSE Res(c, Value(Array(r.out)), cs, <<>>)

sigmaV(c, R, a, p_of_k_a) ==
    IF ~parse_pk2d_ok(c, p_of_k_a)
    THEN Res(c, Raise("KeyError"), <<Note("parse_pk2d", p_of_k_a, <<>>)>>, <<>>)
    ELSE
    LET psp == parse_pk2d(c, p_of_k_a)
        R_use == atleast_1d(R)
        r == sigmaV_vec(c, psp, a, R_use.data, Len(R_use.data), 0)
        cs == <<Note("parse_pk2d", p_of_k_a, <<>>),
                Call("sigmaV_vec", p_of_k_a, <<a>> \o R_use.data, Len(R_use.data),
                     r.status, r.out),
                Note("check", "", <<r.status>>)>>
    IN IF check(r.status) THEN Res(c, Raise("CCLError"), cs, <<>>)
       ELSE IF ndim(R) = 0 THEN Res(c, Value(Scalar(r.out[1])), cs, <<>>)
       ELSE Res(c, Value(Array(r.out)), cs, <<>>)

\* cosmo.sigmaR(R, p_of_k_a=...): sigmaR as a method, a left at its default 1
cosmo_sigmaR(c, R, p_of_k_a) == sigmaR(c, R, 1, p_of_k_a)

\* Variant: the computed value is never stored.
sigma8_nofill(c, p_of_k_a) ==
    cosmo_sigmaR(c, Scalar(8 \div GetParam(c, "h")), p_of_k_a)

\* Variant: the computed value is stored on every successful call.
sigma8_alwaysfill(c, p_of_k_a) ==
    LET s == cosmo_sigmaR(c, Scalar(8 \div GetParam(c, "h")), p_of_k_a)
    IN IF s.ret.raised THEN s
       ELSE LET sig8 == s.ret.data[1]
            IN Res(fill_params(s.cosmo, sig8), s.ret,
                   s.calls \o <<Note("_fill_params", "", <<sig8>>)>>, <<sig8>>)

\* Variant: the guard compares the stored value with the computed one
\* (cosmo["sigma8"] != sig8, which is also true of a stored NaN).
sigma8_fill_if_differs(c, p_of_k_a) ==
    LET s == cosmo_sigmaR(c, Scalar(8 \div GetParam(c, "h")), p_of_k_a)
    IN IF s.ret.raised THEN s
       ELSE LET sig8 == s.ret.data[1]
            IN IF isnan(GetParam(s.cosmo, "sigma8")) \/ GetParam(s.cosmo, "sigma8") # sig8
               THEN Res(fill_params(s.cosmo, sig8), s.ret,
                        s.calls \o <<Note("_fill_params", "", <<sig8>>)>>,
                        <<sig8>>)
               ELSE Res(s.cosmo, s.ret, s.calls, <<>>)

\* Variant: the radius is 8 Mpc, not rescaled by h.
sigma8_noh(c, p_of_k_a) ==
    LET s == cosmo_sigmaR(c, Scalar(8), p_of_k_a)
    IN IF s.ret.raised THEN s
       ELSE LET sig8 == s.ret.data[1]
            IN IF isnan(GetParam(s.cosmo, "sigma8"))
               THEN Res(fill_params(s.cosmo, sig8), s.ret,
                        s.calls \o <<Note("_fill_params", "", <<sig8>>)>>,
                        <<sig8>>)
               ELSE Res(s.cosmo, s.ret, s.calls, <<>>)

\* Variant: the error of sigmaR is caught, a zero is stored and the error
\* re-raised.
sigma8_eager(c, p_of_k_a) ==
    LET s == cosmo_sigmaR(c, Scalar(8 \div GetParam(c, "h")), p_of_k_a)
        sig8 == IF s.ret.raised THEN 0 ELSE s.ret.data[1]
    IN IF isnan(GetParam(s.cosmo, "sigma8"))
       THEN Res(fill_params(s.cosmo, sig8), s.ret,
                s.calls \o <<Note("_fill_params", "", <<sig8>>)>>,
                <<sig8>>)
       ELSE Res(s.cosmo, s.ret, s.calls, <<>>)

sigma8(c, p_of_k_a) ==
    LET s == cosmo_sigmaR(c, Scalar(8 \div GetParam(c, "h")), p_of_k_a)
    IN IF s.ret.raised THEN s
       ELSE LET sig8 == s.ret.data[1]
            IN IF isnan(GetParam(s.cosmo, "sigma8"))
               THEN Res(fill_params(s.cosmo, sig8), s.ret,
                        s.calls \o <<Note("_fill_params", "", <<sig8>>)>>,
                        <<sig8>>)
               ELSE Res(s.cosmo, s.ret, s.calls, <<>>)

\* Variant: a result of one element is unwrapped whatever the argument was
\* (a_use.size == 1 in place of np.ndim(a) == 0).
kNL_len1(c, a, p_of_k_a) ==
    IF ~parse_pk2d_ok(c, p_of_k_a)
    THEN Res(c, Raise("KeyError"), <<Note("parse_pk2d", p_of_k_a, <<>>)>>, <<>>)
    ELSE
    LET psp == parse_pk2d(c, p_of_k_a)
        a_use == atleast_1d(a)
        r == kNL_vec(c, psp, a_use.data, Len(a_use.data), 0)
        cs == <<Note("parse_pk2d", p_of_k_a, <<>>),
                Call("kNL_vec", p_of_k_a, a_use.data, Len(a_use.data),
                     r.status, r.out),
                Note("check", "", <<r.status>>)>>
    IN IF check(r.status) THEN Res(c, Raise("CCLError"), cs, <<>>)
       ELSE IF Len(a_use.data) = 1 THEN Res(c, Value(Scalar(r.out[1])), cs, <<>>)
       ELSE Res(c, Value(Array(r.out)), cs, <<>>)

kNL(c, a, p_of_k_a) ==
    IF ~parse_pk2d_ok(c, p_of_k_a)
    THEN Res(c, Raise("KeyError"), <<Note("parse_pk2d", p_of_k_a, <<>>)>>, <<>>)
    ELSE
    LET psp == parse_pk2d(c, p_of_k_a)
        a_use == atleast_1d(a)
        r == kNL_vec(c, psp, a_use.data, Len(a_use.data), 0)
        cs == <<Note("parse_pk2d", p_of_k_a, <<>>),
                Call("kNL_vec", p_of_k_a, a_use.data, Len(a_use.data),
                     r.status, r.out),
                Note("check", "", <<r.status>>)>>
    IN IF check(r.status) THEN Res(c, Raise("CCLError"), cs, <<>>)
       ELSE IF ndim(a) = 0 THEN Res(c, Value(Scalar(r.out[1])), cs, <<>>)
       ELSE Res(c, Value(Array(r.out)), cs, <<>>)

\* ------------------------------------------------------------ inputs
KVals == {1, 2}          \* sampled wavenumbers
AVals == {0, 1, 2}       \* sampled scale factors; 0 is rejected by the engine
MVals == {0, 10}         \* sampled masses; 0 has no logarithm
RVals == {-1, 8}         \* sampled radii; a negative radius is rejected
HVals == {1, 2}          \* sampled Hubble parameters (8/h is exact for them)
StoredSigma8 == {NaN, 7} \* sigma8 as given at construction, NaN when not given

ArgsOver(S) ==
    {Scalar(x) : x \in S} \cup
    {Array(s) : s \in UNION {[1..m -> S] : m \in 1..MaxLen}}

\* wavenumbers and scale factors of the power-spectrum accessors: each
\* sampled scalar, and the array of the valid ones
PkKArgs == {Scalar(k) : k \in KVals} \cup {Array(<<1, 2>>)}
PkAArgs == {Scalar(a) : a \in AVals} \cup {Array(<<1, 2>>)}

None == Array(<<>>)
Args(x, a, id) == [x |-> x, a |-> a, id |-> id]

LinearSpectra ==
    { (DEFAULT_POWER_SPECTRUM :> 1) @@ ("alt" :> 2),
      (DEFAULT_POWER_SPECTRUM :> NaN) @@ ("alt" :> 2),
      (DEFAULT_POWER_SPECTRUM :> 1) @@ ("alt" :> 0) }
NonlinSpectra ==
    (DEFAULT_POWER_SPECTRUM :> 3) @@ ("alt" :> 4) @@ ("nl_only" :> 5)

Contexts ==
    [h : HVals, sigma8 : StoredSigma8, sigma_built : {FALSE},
     pk_lin : LinearSpectra, pk_nl : {NonlinSpectra}]

\* ------------------------------------------------------------ behaviour
Init ==
    /\ cosmo \in Contexts
    /\ pre = cosmo
    /\ op = "none"
    /\ args = Args(None, None, "")
    /\ ret = Value(None)
    /\ calls = <<>>
    /\ written = <<>>
    /\ ncalls = 0

\* One call of an operation: r is what the operation makes of the context.
Do(name, a_, r) ==
    /\ ncalls < MaxCalls
    /\ pre' = cosmo
    /\ cosmo' = r.cosmo
    /\ op' = name
    /\ args' = a_
    /\ ret' = r.ret
    /\ calls' = r.calls
    /\ written' = written \o r.fills
    /\ ncalls' = ncalls + 1

LinearPower ==
    \E k \in PkKArgs, a \in PkAArgs, id \in Ids :
        Do("linear_power", Args(k, a, id), linear_power(cosmo, k, a, id))

NonlinPower ==
    \E k \in PkKArgs, a \in PkAArgs, id \in Ids :
        Do("nonlin_power", Args(k, a, id), nonlin_power(cosmo, k, a, id))

LinearMatterPower ==
    \E k \in PkKArgs, a \in PkAArgs :
        Do("linear_matter_power", Args(k, a, ""), linear_matter_power(cosmo, k, a))

NonlinMatterPower ==
    \E k \in PkKArgs, a \in PkAArgs :
        Do("nonlin_matter_power", Args(k, a, ""), nonlin_matter_power(cosmo, k, a))

SigmaM ==
    \E M \in ArgsOver(MVals), a \in AVals :
        Do("sigmaM", Args(M, Scalar(a), ""), sigmaM(cosmo, M, a))

SigmaR ==
    \E R \in ArgsOver(RVals), a \in AVals, id \in Ids :
        Do("sigmaR", Args(R, Scalar(a), id), sigmaR(cosmo, R, a, id))

SigmaV ==
    \E R \in ArgsOver(RVals), a \in AVals, id \in Ids :
        Do("sigmaV", Args(R, Scalar(a), id), sigmaV(cosmo, R, a, id))

Sigma8 ==
    \E id \in Ids :
        Do("sigma8", Args(None, None, id), sigma8(cosmo, id))

KNL ==
    \E a \in ArgsOver(AVals), id \in Ids :
        Do("kNL", Args(a, None, id), kNL(cosmo, a, id))

Next ==
    \/ LinearPower
    \/ NonlinPower
    \/ LinearMatterPower
    \/ NonlinMatterPower
    \/ SigmaM
    \/ SigmaR
    \/ SigmaV
    \/ Sigma8
    \/ KNL

Spec == Init /\ [][Next]_vars

TypeOK ==
    /\ cosmo.h \in HVals
    /\ ncalls \in 0..MaxCalls
    /\ Len(written) <= ncalls
    /\ ret.raised \in BOOLEAN

\* ------------------------------------------------------------ properties
EngineFns == {"sigM_vec", "sigmaR_vec", "sigmaV_vec", "kNL_vec"}
EngineOps == {"sigmaM", "sigmaR", "sigmaV", "sigma8", "kNL"}
ShapeOps == {"sigmaM", "sigmaR", "sigmaV", "kNL"}
ReadOnlyOps == {"linear_power", "nonlin_power", "linear_matter_power",
                "nonlin_matter_power", "sigmaM", "sigmaR", "sigmaV", "kNL"}

\* positions in a call record sequence of the calls of the given routines
At(cs, fns) == {i \in 1..Len(cs) : cs[i].fn \in fns}
EngineFailed(cs) == \E i \in At(cs, EngineFns) : cs[i].st # 0
Filled(cs) == At(cs, {"_fill_params"}) # {}

\* C1: in sigmaM, sigmaR, sigmaV, kNL and sigma8, a non-zero status of the
\* engine routine ends the call with a raised error and no numeric result,
\* full or partial; a result is returned only when the status is zero.
C1_NonZeroStatusRaises ==
    op \in EngineOps =>
        /\ EngineFailed(calls) => (ret.raised /\ ret.data = <<>>)
        /\ ~ret.raised => (\A i \in At(calls, EngineFns) : calls[i].st = 0)

\* a sigmaR call on an array whose first radius is valid and second is not:
\* the engine has filled part of its output and the call raised
C1_Witness ==
    /\ op = "sigmaR"
    /\ ret.raised
    /\ \E i \in At(calls, EngineFns) :
          calls[i].st # 0 /\ calls[i].n = 2 /\ calls[i].out[1] # 0

\* C2: after a sigma8 call that starts with the stored sigma8 NaN and returns
\* without error, the stored sigma8 equals the returned value.
C2_FillEqualsReturn ==
    (op = "sigma8" /\ ~ret.raised /\ isnan(pre.sigma8)) =>
        cosmo.sigma8 = ret.data[1]

C2_Witness ==
    /\ op = "sigma8"
    /\ ~ret.raised
    /\ isnan(pre.sigma8)
    /\ ~isnan(cosmo.sigma8)
    /\ written # <<>>

\* C3 as stated: every successful sigma8 call leaves the computed value in the
\* stored sigma8 field, also when the stored value was already defined.
C3_Original ==
    (op = "sigma8" /\ ~ret.raised) => cosmo.sigma8 = ret.data[1]

\* C3 amended: a successful sigma8 call writes the computed value exactly
\* when the stored sigma8 is NaN as the call begins; when it is defined the
\* write-back is skipped and the context is left as it was.
C3_WriteOnlyWhenNaN ==
    (op = "sigma8" /\ ~ret.raised) =>
        IF isnan(pre.sigma8)
        THEN /\ Filled(calls)
             /\ cosmo = fill_params(pre, ret.data[1])
        ELSE /\ ~Filled(calls)
             /\ cosmo = pre

\* a successful sigma8 call on a defined field that computed another value
C3_Witness ==
    /\ op = "sigma8"
    /\ ~ret.raised
    /\ ~isnan(pre.sigma8)
    /\ ~isnan(ret.data[1])
    /\ cosmo.sigma8 # ret.data[1]

\* C4 as stated: over any sequence of calls the module writes the stored
\* sigma8 field at most once.
C4_Original == Len(written) <= 1

\* C4 amended: a write that stores a defined (non-NaN) value is the last
\* write, so at most one write stores a defined value; writes of a NaN result
\* leave the field undefined and can repeat.
C4_DefinedWriteIsLast ==
    \A i \in 1..Len(written) : ~isnan(written[i]) => i = Len(written)

\* a NaN write followed by the one defined write
C4_Witness ==
    /\ Len(written) = 2
    /\ isnan(written[1])
    /\ ~isnan(written[2])
    /\ cosmo.sigma8 = written[2]

\* C5 as stated: the eight other operations, and sigma8 on a defined field,
\* leave every part of the context unchanged, lazily built tables included.
C5_Original ==
    (op \in ReadOnlyOps \/ (op = "sigma8" /\ ~isnan(pre.sigma8))) => cosmo = pre

\* C5 amended: those calls leave the stored parameters and the registered
\* spectra unchanged; sigmaM builds the lazily built variance table through
\* compute_sigma() and that is the only change any of them makes.
C5_OnlyTableBuilt ==
    (op \in ReadOnlyOps \/ (op = "sigma8" /\ ~isnan(pre.sigma8))) =>
        /\ cosmo.h = pre.h
        /\ cosmo.sigma8 = pre.sigma8
        /\ cosmo.pk_lin = pre.pk_lin
        /\ cosmo.pk_nl = pre.pk_nl
        /\ IF op = "sigmaM" THEN cosmo = compute_sigma(pre) ELSE cosmo = pre

\* a successful sigmaM call that built the variance table and left the
\* undefined stored sigma8 alone
C5_Witness ==
    /\ op = "sigmaM"
    /\ ~ret.raised
    /\ ~pre.sigma_built
    /\ cosmo.sigma_built
    /\ isnan(pre.sigma8)
    /\ isnan(cosmo.sigma8)

\* C6: in sigmaM, sigmaR, sigmaV and kNL the engine is called with the length
\* of the argument; a scalar argument yields a scalar, element 0 of the
\* engine output; an array of length n >= 1 yields the array of length n.
C6_ShapeMirrorsInput ==
    op \in ShapeOps =>
        /\ \A i \in At(calls, EngineFns) :
              /\ calls[i].n = Len(args.x.data)
              /\ ~ret.raised =>
                    IF args.x.shape = "scalar"
                    THEN ret.shape = "scalar" /\ ret.data = <<calls[i].out[1]>>
                    ELSE /\ ret.shape = "array"
                         /\ Len(ret.data) = Len(args.x.data)
                         /\ ret.data = calls[i].out
        /\ ~ret.raised => At(calls, EngineFns) # {}

\* kNL on an array of one scale factor returns an array of one element
C6_Witness ==
    /\ op = "kNL"
    /\ ~ret.raised
    /\ args.x.shape = "array"
    /\ Len(args.x.data) = 1
    /\ ret.shape = "array"
    /\ Len(ret.data) = 1

\* C7: linear_matter_power has the outcome of linear_power with the default
\* spectrum name, nonlin_matter_power that of nonlin_power with it, and the
\* wrappers resolve no other spectrum.
C7_WrappersUseDefault ==
    /\ op = "linear_matter_power" =>
          /\ ret = linear_power(pre, args.x, args.a, DEFAULT_POWER_SPECTRUM).ret
          /\ At(calls, {"get_linear_power"}) # {}
          /\ At(calls, {"get_nonlin_power", "parse_pk2d"}) = {}
          /\ \A i \in 1..Len(calls) : calls[i].id = DEFAULT_POWER_SPECTRUM
    /\ op = "nonlin_matter_power" =>
          /\ ret = nonlin_power(pre, args.x, args.a, DEFAULT_POWER_SPECTRUM).ret
          /\ At(calls, {"get_nonlin_power"}) # {}
          /\ At(calls, {"get_linear_power", "parse_pk2d"}) = {}
          /\ \A i \in 1..Len(calls) : calls[i].id = DEFAULT_POWER_SPECTRUM

C7_Witness ==
    /\ op = "linear_matter_power"
    /\ ~ret.raised
    /\ ret.shape = "grid"
    /\ pre.pk_lin[DEFAULT_POWER_SPECTRUM] # pre.pk_nl[DEFAULT_POWER_SPECTRUM]

\* the call records of a sigmaM call: compute_sigma() once and before the one
\* engine call, log10 once, and the engine given log10 of each mass
SigmaMCallsOK(cs, M) ==
    /\ Cardinality(At(cs, {"compute_sigma"})) = 1
    /\ Cardinality(At(cs, {"log10"})) = 1
    /\ Cardinality(At(cs, EngineFns)) = 1
    /\ \A i \in At(cs, {"compute_sigma"}) : \A j \in At(cs, EngineFns) : i < j
    /\ \A j \in At(cs, EngineFns) :
          /\ cs[j].fn = "sigM_vec"
          /\ cs[j].arg = [i \in 1..Len(M.data) |-> log10(M.data[i])]

\* C8: every sigmaM call runs compute_sigma() before the engine routine and
\* never the routine without it, passes the mass through log10 exactly once,
\* and a sigmaM call repeated with the same arguments has the same outcome.
C8_SigmaMOrderAndRepeat ==
    [][ /\ op' = "sigmaM" => SigmaMCallsOK(calls', args'.x)
        /\ (op = "sigmaM" /\ op' = "sigmaM" /\ args' = args) => ret' = ret
      ]_vars

\* a second, successful sigmaM call on a context whose table an earlier
\* sigmaM call had built
C8_Witness ==
    /\ op = "sigmaM"
    /\ ncalls = 2
    /\ pre.sigma_built
    /\ ~ret.raised
    /\ ret.data = <<101, 101>>

\* C9: sigma8(cosmo, id) has the outcome of sigmaR(cosmo, 8/h, a = 1, id):
\* the same spectrum name is forwarded, the scale factor is 1 and the result
\* is a scalar.
C9_Sigma8IsSigmaR ==
    op = "sigma8" =>
        /\ ret = sigmaR(pre, Scalar(8 \div pre.h), 1, args.id).ret
        /\ ~ret.raised => ret.shape = "scalar"
        /\ \A i \in At(calls, {"parse_pk2d"}) : calls[i].id = args.id
        /\ \A i \in At(calls, EngineFns) :
              /\ calls[i].fn = "sigmaR_vec"
              /\ calls[i].id = args.id
              /\ calls[i].arg = <<1, 8 \div pre.h>>
              /\ calls[i].n = 1

C9_Witness ==
    /\ op = "sigma8"
    /\ ~ret.raised
    /\ pre.h = 2
    /\ args.id = "alt"
    /\ ret.data = <<2104>>

\* C10: a sigma8 call whose sigmaR evaluation fails (spectrum rejected or
\* non-zero engine status) raises and writes nothing, so a NaN stored sigma8
\* stays NaN, and a successful sigma8 call right after it fills the field.
C10_FailedSigma8WritesNothing ==
    [][ /\ (op' = "sigma8" /\ (~parse_pk2d_ok(cosmo, args'.id) \/ EngineFailed(calls')))
            => ret'.raised
        /\ (op' = "sigma8" /\ ret'.raised)
            => (cosmo' = cosmo /\ written' = written /\ ~Filled(calls'))
        /\ (op = "sigma8" /\ ret.raised /\ isnan(pre.sigma8)
              /\ op' = "sigma8" /\ ~ret'.raised)
            => (isnan(cosmo.sigma8) /\ cosmo'.sigma8 = ret'.data[1]
                /\ written' = Append(written, ret'.data[1]))
      ]_vars

\* a sigma8 call on an undefined field failed in the engine; the field is
\* still undefined
C10_Witness ==
    /\ op = "sigma8"
    /\ ret.raised
    /\ EngineFailed(calls)
    /\ isnan(pre.sigma8)
    /\ isnan(cosmo.sigma8)
    /\ written = <<>>

====
